---- MODULE Spec2Model ----
(***************************************************************************)
(* Model of the cinema bot: the history store (app/db/database.py), the    *)
(* pagination keyboard and callback token codec, and the event handlers    *)
(* of CinemaBot (app/bot.py).                                              *)
(*                                                                         *)
(* Text is modelled as a sequence of chunks.  A chunk is "_" (the token    *)
(* delimiter), one decimal digit, a sign, or a delimiter-free word such as *)
(* "pagination"; str.split("_") and int() work on these sequences as the   *)
(* Python functions work on characters.                                    *)
(***************************************************************************)
EXTENDS Integers, Sequences, FiniteSets, TLC

VARIABLES
    users,      \* table users: sequence of User rows, row id = position
    history,    \* table search_history: sequence of rows, row id = position
    msgs,       \* the chat: sequence of messages the bot has sent
    last,       \* what the most recent bot event did (observation record)
    res,        \* result of the most recent direct call of a component
    appended,   \* number of rows appended since start-up
    files,      \* the text assets on disk, by text key
    cache,      \* _text_cache of the text loader, by text key
    tasks       \* the coroutines in flight: where each one stands

vars == <<users, history, msgs, last, res, appended, files, cache, tasks>>

\* ------------------------------------------------------------------ bounds
MaxInitRows == 12      \* rows already in search_history at start-up
MaxPage     == 4       \* page numbers tried in direct store calls
MaxAppend   == 1       \* rows appended during a run
MaxMsgs     == 1       \* messages in the chat that are not deleted
MaxFaults   == 2       \* calls that fail while one event is handled
MaxDocs     == 2       \* records in one payload of the catalog
MaxTasks    == 3       \* get_or_create_user calls scheduled during a run
MaxPresses  == 3       \* presses delivered in one burst

\* --------------------------------------------------------- program constants
PER_PAGE == 5          \* default per_page of get_user_history/get_user_stats
SEARCH_LIMIT == 5      \* movies[:5] in handle_search


\* ------------------------------------------------------------ small helpers
Max(a, b) == IF a >= b THEN a ELSE b
Min(a, b) == IF a <= b THEN a ELSE b

Reverse(s) == [i \in 1..Len(s) |-> s[Len(s) + 1 - i]]

\* SQL "OFFSET offset LIMIT limit" on an ordered result.  SQLite (the
\* configured DATABASE_URL) treats a negative OFFSET as 0.
OffsetLimit(rows, offset, limit) ==
    LET off == Max(0, offset)
    IN  SubSeq(rows, off + 1, Min(Len(rows), off + limit))

\* -------------------------------------------------------------- the store
\* SQL NULL in a numeric column (movie_rating, AVG over no values).
NULL == 0 - 1

\* Ratings are kept in tenths (75 is 7.5).  Whole ratings only are stored,
\* so every average that lies half-way between two tenths is a multiple of
\* 0.25 and is exact in binary floating point.
RatingValues == {70, 80}

\* WHERE SearchHistory.user_id == user_id, in insertion (id) order.
UserRows(h, user_id) == SelectSeq(h, LAMBDA r : r.user_id = user_id)

\* (mutant of TotalPages: the floor of one page is missing)
TotalPagesNoFloor(total_count, per_page) ==
    (total_count + per_page - 1) \div per_page

\* (mutant of TotalPages: floor instead of ceiling)
TotalPagesFloor(total_count, per_page) ==
    Max(1, total_count \div per_page)

\* total_pages = max(1, (total_count + per_page - 1) // per_page)
TotalPages(total_count, per_page) ==
    Max(1, (total_count + per_page - 1) \div per_page)

\* offset = (page - 1) * per_page
PageOffset(page, per_page) == (page - 1) * per_page

\* (mutant of get_user_history: ORDER BY id without DESC)
get_user_history_oldest_first(h, user_id, page, per_page) ==
    LET rows == UserRows(h, user_id)
    IN  [items       |-> OffsetLimit(rows, PageOffset(page, per_page), per_page),
         total_pages |-> TotalPages(Len(rows), per_page)]

\* Database.get_user_history: (history_list, total_pages)
get_user_history(h, user_id, page, per_page) ==
    LET rows        == UserRows(h, user_id)
        total_count == Len(rows)
        total_pages == TotalPages(total_count, per_page)
        offset      == PageOffset(page, per_page)
        ordered     == Reverse(rows)          \* ORDER BY id DESC
    IN  [items       |-> OffsetLimit(ordered, offset, per_page),
         total_pages |-> total_pages]

\* GROUP BY movie_id, movie_title, movie_url
GroupKey(r) == <<r.movie_id, r.movie_title, r.movie_url>>

RECURSIVE DistinctKeys(_)
DistinctKeys(rows) ==
    IF rows = <<>> THEN <<>>
    ELSE LET front == DistinctKeys(SubSeq(rows, 1, Len(rows) - 1))
             k     == GroupKey(rows[Len(rows)])
         IN  IF \E i \in 1..Len(front) : front[i] = k
             THEN front ELSE Append(front, k)

RECURSIVE SumRatings(_)
SumRatings(rows) ==
    IF rows = <<>> THEN 0
    ELSE rows[1].movie_rating + SumRatings(Tail(rows))

\* round(x, 1) of x = num/den tenths: nearest tenth, ties to the even tenth
RoundTenths(num, den) ==
    LET q == num \div den
        r == num % den
    IN  IF 2 * r < den THEN q
        ELSE IF 2 * r > den THEN q + 1
        ELSE IF q % 2 = 0 THEN q ELSE q + 1

\* (mutant of AvgRating: the average is cut to the tenth below)
AvgRatingCut(rows) ==
    LET rated == SelectSeq(rows, LAMBDA r : r.movie_rating # NULL)
        total == SumRatings(rated)
    IN  IF rated = <<>> \/ total = 0 THEN NULL
        ELSE total \div Len(rated)

\* func.avg(movie_rating) over a group (NULLs are skipped), then
\* round(float(avg), 1) if avg else None
AvgRating(rows) ==
    LET rated == SelectSeq(rows, LAMBDA r : r.movie_rating # NULL)
        total == SumRatings(rated)
    IN  IF rated = <<>> \/ total = 0 THEN NULL
        ELSE RoundTenths(total, Len(rated))

Aggregate(rows, k) ==
    LET grp == SelectSeq(rows, LAMBDA r : GroupKey(r) = k)
    IN  [movie_id     |-> k[1],
         movie_title  |-> k[2],
         movie_url    |-> k[3],
         avg_rating   |-> AvgRating(grp),
         search_count |-> Len(grp)]

\* ORDER BY search_count DESC.  SQL leaves the order of groups with equal
\* counts open; the model fixes it as SQLite's grouping emits them, by
\* ascending movie_id.
GroupBefore(a, b) ==
    \/ a.search_count > b.search_count
    \/ a.search_count = b.search_count /\ a.movie_id < b.movie_id

RECURSIVE InsertGroup(_, _)
InsertGroup(sorted, g) ==
    IF sorted = <<>> THEN <<g>>
    ELSE IF GroupBefore(g, sorted[1]) THEN <<g>> \o sorted
    ELSE <<sorted[1]>> \o InsertGroup(Tail(sorted), g)

RECURSIVE SortGroups(_)
SortGroups(gs) ==
    IF gs = <<>> THEN <<>>
    ELSE InsertGroup(SortGroups(SubSeq(gs, 1, Len(gs) - 1)), gs[Len(gs)])

UserGroups(h, user_id) ==
    LET rows == UserRows(h, user_id)
        keys == DistinctKeys(rows)
    IN  [i \in 1..Len(keys) |-> Aggregate(rows, keys[i])]

\* Database.get_user_stats: (stats_list, total_pages)
get_user_stats(h, user_id, page, per_page) ==
    LET groups      == UserGroups(h, user_id)
        total_count == Len(groups)
        total_pages == TotalPages(total_count, per_page)
        offset      == PageOffset(page, per_page)
        ordered     == SortGroups(groups)
    IN  [items       |-> OffsetLimit(ordered, offset, per_page),
         total_pages |-> total_pages]

\* (mutant of get_user_by_telegram_id: the first row, whoever asks)
get_user_first_row(us, telegram_id) == IF Len(us) > 0 THEN 1 ELSE 0

\* Database.get_user_by_telegram_id: the row id, 0 for None
get_user_by_telegram_id(us, telegram_id) ==
    IF \E i \in 1..Len(us) : us[i].telegram_id = telegram_id
    THEN CHOOSE i \in 1..Len(us) : us[i].telegram_id = telegram_id
    ELSE 0

\* Database.get_or_create_user: the users table afterwards
get_or_create_user(us, telegram_id) ==
    IF get_user_by_telegram_id(us, telegram_id) # 0 THEN us
    ELSE Append(us, [telegram_id |-> telegram_id])

\* (mutant of add_search_history: the newest row is overwritten when the
\* table has one)
add_search_history_overwrite(h, user_id, query, movie_id, movie_title, movie_url, movie_rating) ==
    LET row == [id           |-> Max(1, Len(h)),
                user_id      |-> user_id,
                query        |-> query,
                movie_id     |-> movie_id,
                movie_title  |-> movie_title,
                movie_url    |-> movie_url,
                movie_rating |-> movie_rating]
    IN  IF h = <<>> THEN <<row>> ELSE [h EXCEPT ![Len(h)] = row]

\* Database.add_search_history: the search_history table afterwards.  The
\* [:255]/[:512] cuts leave the short texts of the model as they are.
add_search_history(h, user_id, query, movie_id, movie_title, movie_url, movie_rating) ==
    Append(h, [id           |-> Len(h) + 1,
               user_id      |-> user_id,
               query        |-> query,
               movie_id     |-> movie_id,
               movie_title  |-> movie_title,
               movie_url    |-> movie_url,
               movie_rating |-> movie_rating])

\* ------------------------------------------------------- callback tokens
Digits == <<"0", "1", "2", "3", "4", "5", "6", "7", "8", "9">>
IsDigit(c) == \E d \in 1..10 : Digits[d] = c
DigitValue(c) == (CHOOSE d \in 1..10 : Digits[d] = c) - 1

\* str(n) of a natural number
RECURSIVE StrNat(_)
StrNat(n) ==
    IF n < 10 THEN <<Digits[n + 1]>>
    ELSE StrNat(n \div 10) \o <<Digits[(n % 10) + 1]>>

\* f"{n}" of an int
Str(n) == IF n < 0 THEN <<"-">> \o StrNat(0 - n) ELSE StrNat(n)

\* str.split("_")
RECURSIVE Split(_)
Split(s) ==
    IF \A i \in 1..Len(s) : s[i] # "_" THEN <<s>>
    ELSE LET i == CHOOSE j \in 1..Len(s) :
                      s[j] = "_" /\ \A k \in 1..(j - 1) : s[k] # "_"
         IN  <<SubSeq(s, 1, i - 1)>> \o Split(SubSeq(s, i + 1, Len(s)))

\* str.startswith(prefix)
StartsWith(s, prefix) ==
    Len(s) >= Len(prefix) /\ SubSeq(s, 1, Len(prefix)) = prefix

RECURSIVE DigitsValue(_)
DigitsValue(s) ==
    IF s = <<>> THEN 0
    ELSE 10 * DigitsValue(SubSeq(s, 1, Len(s) - 1)) + DigitValue(s[Len(s)])

\* int(s) succeeds: an optional sign, then one or more digits
IsInt(s) ==
    LET body == IF s # <<>> /\ s[1] \in {"-", "+"} THEN Tail(s) ELSE s
    IN  body # <<>> /\ \A i \in 1..Len(body) : IsDigit(body[i])

\* int(s), where it succeeds
IntValue(s) ==
    IF s[1] = "-" THEN 0 - DigitsValue(Tail(s))
    ELSE IF s[1] = "+" THEN DigitsValue(Tail(s))
    ELSE DigitsValue(s)

\* f"pagination_{content_type}_{action}_{current_page}"
PaginationToken(content_type, action, current_page) ==
    <<"pagination", "_", content_type, "_", action, "_">> \o Str(current_page)

\* (mutant of _get_pagination_keyboard: each button carries the page it
\* leads to instead of the page it is on)
PaginationKeyboardTarget(content_type, current_page, total_pages) ==
    (IF current_page > 1
     THEN <<[text |-> "back",
             callback_data |-> PaginationToken(content_type, "prev", current_page - 1)]>>
     ELSE <<>>)
    \o
    (IF current_page < total_pages
     THEN <<[text |-> "forward",
             callback_data |-> PaginationToken(content_type, "next", current_page + 1)]>>
     ELSE <<>>)

\* (mutant of _get_pagination_keyboard: <= for < in the forward test)
PaginationKeyboardAlwaysNext(content_type, current_page, total_pages) ==
    (IF current_page > 1
     THEN <<[text |-> "back",
             callback_data |-> PaginationToken(content_type, "prev", current_page)]>>
     ELSE <<>>)
    \o
    (IF current_page <= total_pages
     THEN <<[text |-> "forward",
             callback_data |-> PaginationToken(content_type, "next", current_page)]>>
     ELSE <<>>)

\* (mutant of _get_pagination_keyboard: >= for > in the back test)
PaginationKeyboardBackFromFirst(content_type, current_page, total_pages) ==
    (IF current_page >= 1
     THEN <<[text |-> "back",
             callback_data |-> PaginationToken(content_type, "prev", current_page)]>>
     ELSE <<>>)
    \o
    (IF current_page < total_pages
     THEN <<[text |-> "forward",
             callback_data |-> PaginationToken(content_type, "next", current_page)]>>
     ELSE <<>>)

\* CinemaBot._get_pagination_keyboard
_get_pagination_keyboard(content_type, current_page, total_pages) ==
    (IF current_page > 1
     THEN <<[text |-> "back",
             callback_data |-> PaginationToken(content_type, "prev", current_page)]>>
     ELSE <<>>)
    \o
    (IF current_page < total_pages
     THEN <<[text |-> "forward",
             callback_data |-> PaginationToken(content_type, "next", current_page)]>>
     ELSE <<>>)

\* ------------------------------------------------------------ message text
\* A text is what its wording says: which fixed text it is, or the page
\* header "(страница X из Y)" and the entries listed under it.
PlainText(tag) == [tag |-> tag, page |-> 0, total |-> 0, items |-> <<>>]

\* CinemaBot._format_history_message
_format_history_message(items, current_page, total_pages) ==
    IF items = <<>> THEN PlainText("history_empty")
    ELSE [tag |-> "history_page", page |-> current_page,
          total |-> total_pages, items |-> items]

\* CinemaBot._format_stats_message
_format_stats_message(items, current_page, total_pages) ==
    IF items = <<>> THEN PlainText("stats_empty")
    ELSE [tag |-> "stats_page", page |-> current_page,
          total |-> total_pages, items |-> items]

\* A message of the chat.  kind, page and total record what it was rendered
\* from; text and kb are what the user sees.
Message(kind, text, kb, page, total) ==
    [kind |-> kind, text |-> text, kb |-> kb, page |-> page, total |-> total,
     photo |-> FALSE, deleted |-> FALSE]

\* ------------------------------------------------- contents of the tables
\* Telegram ids of the people who talk to the bot.
TgIds == {1001, 1002}

\* The catalog: movie ids are numbers of equal length, so that their order
\* as strings (movie_id is a String column) is their order as numbers.
MovieId(k) == 300 + k
Title(movie_id) == <<"title", movie_id>>
\* f"https://www.sspoisk.ru/film/{movie.id}/"
MovieUrl(movie_id) == <<"https://www.sspoisk.ru/film/", movie_id, "/">>

\* "Выберите фильм из списка:", the text of a selection list
SELECT_TEXT == "select_movie"

\* The database file outlives the process: at start-up the tables hold what
\* earlier runs wrote.  StoredRow(i, d, alt) is row i of a table that cycles
\* through d movies; with alt the rows belong to users 1 and 2 in turn.
StoredRow(i, d, alt) ==
    LET movie_id == MovieId(((i - 1) % d) + 1)
    IN  [id           |-> i,
         user_id      |-> IF alt /\ i % 2 = 0 THEN 2 ELSE 1,
         query        |-> SELECT_TEXT,
         movie_id     |-> movie_id,
         movie_title  |-> Title(movie_id),
         movie_url    |-> MovieUrl(movie_id),
         movie_rating |-> IF i % 3 = 0 THEN NULL
                          ELSE IF i % 2 = 0 THEN 80 ELSE 70]

StoredHistory(n, d, alt) == [i \in 1..n |-> StoredRow(i, d, alt)]

StoredUsers(k) == SubSeq(<<[telegram_id |-> 1001], [telegram_id |-> 1002]>>, 1, k)

NoEvent == [handler |-> "none"]
NoCall  == [op |-> "none"]

\* ------------------------------------------------------------ the handlers
\* A handler is given the tables, the chat, the event (from_user, the index
\* of callback.message or 0 when the message is gone, callback.data) and
\* the set F of its calls to collaborators that fail with an exception this
\* time.  It yields the tables and the chat afterwards and what it did:
\*   answers   callback.answer(text, show_alert=True) calls that went through
\*             ("" is the plain callback.answer())
\*   reads     store reads issued (get_or_create_user counts as a read)
\*   writes    rows appended to search_history
\*   edited    callback.message.edit_text went through
\*   sent      messages sent
\*   deleted   callback.message.delete went through
\*   raised    an exception left the handler
\*   failed    the calls that raised
\*   log       logger.error lines
\*   outcome   the return statement the handler left by
Start(us, h, ms) ==
    [users |-> us, history |-> h, msgs |-> ms, answers |-> <<>>, reads |-> 0,
     writes |-> 0,
     edited |-> FALSE, sent |-> 0, deleted |-> FALSE, raised |-> FALSE,
     failed |-> {}, log |-> <<>>, outcome |-> "running"]

\* the call at site raised
Fail(r, site) == [r EXCEPT !.failed = @ \cup {site}]

Alert(r, text, outcome) ==
    [r EXCEPT !.answers = Append(@, text), !.outcome = outcome]

Raise(r) == [r EXCEPT !.raised = TRUE, !.outcome = "raised"]

\* message.answer(text, reply_markup=kb): a new message in the chat
Send(r, m) == [r EXCEPT !.msgs = Append(@, m), !.sent = @ + 1]

\* (mutant of EditText: the page shown is counted on from the page the
\* message displays)
EditTextFromDisplayed(r, m, kind, text, kb, page, total) ==
    LET shown == r.msgs[m].page + 1
    IN  [r EXCEPT !.msgs[m] = [@ EXCEPT !.kind = kind,
                                        !.text = [text EXCEPT !.page = shown],
                                        !.kb = kb,
                                        !.page = shown, !.total = total],
                  !.edited = TRUE]

\* callback.message.edit_text(text, reply_markup=kb)
EditText(r, m, kind, text, kb, page, total) ==
    [r EXCEPT !.msgs[m] = [@ EXCEPT !.kind = kind, !.text = text, !.kb = kb,
                                    !.page = page, !.total = total],
              !.edited = TRUE]

\* lines 315-317 of handle_pagination: the except clause.  Its log line
\* formats content_type, a local that is unbound until line 277.
PaginationExcept(r, content_type_bound, F) ==
    IF ~content_type_bound THEN Raise(r)                      \* UnboundLocalError
    ELSE LET r1 == [r EXCEPT !.log = Append(@, "pagination_failed")]
         IN  IF "answer_except" \in F THEN Raise(Fail(r1, "answer_except"))
             ELSE Alert(r1, "update_error", "error_alert")

\* lines 272-282 of handle_pagination: split the token, convert the page
DecodeToken(data) ==
    LET parts == Split(data)
    IN  IF Len(parts) # 4
        THEN [ok |-> FALSE, log |-> "pagination_data_error"]
        ELSE IF ~IsInt(parts[4])
        THEN [ok |-> FALSE, log |-> "page_number_error"]
        ELSE [ok |-> TRUE, content_type |-> parts[2], action |-> parts[3],
              current_page |-> IntValue(parts[4])]

\* (mutant of NewPage: the page of the token is shown again)
NewPageSame(action, current_page) == current_page

\* new_page = current_page + 1 if action == "next" else current_page - 1
NewPage(action, current_page) ==
    IF action = <<"next">> THEN current_page + 1 ELSE current_page - 1

\* (mutant of EmptyPage: an empty window counts as an error only when
\* there is more than one page)
EmptyPageManyPages(items, total_pages) == items = <<>> /\ total_pages > 1

\* line 302: if not content and total_pages > 0
EmptyPage(items, total_pages) == items = <<>> /\ total_pages > 0

\* lines 284-313 of handle_pagination, the token decoded
PaginationShow(r0, tg, m, d, F) ==
    LET r1 == [r0 EXCEPT !.reads = @ + 1]
        user_id == get_user_by_telegram_id(r0.users, tg)
    IN  IF "get_user" \in F THEN PaginationExcept(Fail(r1, "get_user"), TRUE, F)
        ELSE IF user_id = 0 THEN
            IF "answer" \in F THEN PaginationExcept(Fail(r1, "answer"), TRUE, F)
            ELSE Alert(r1, "user_not_found", "no_user")
        ELSE
        LET new_page == NewPage(d.action, d.current_page)
            known    == d.content_type \in {<<"history">>, <<"stats">>}
            r2       == [r1 EXCEPT !.reads = @ + 1]
            page     == IF d.content_type = <<"history">>
                        THEN get_user_history(r0.history, user_id, new_page, PER_PAGE)
                        ELSE get_user_stats(r0.history, user_id, new_page, PER_PAGE)
            text     == IF d.content_type = <<"history">>
                        THEN _format_history_message(page.items, new_page, page.total_pages)
                        ELSE _format_stats_message(page.items, new_page, page.total_pages)
            kind     == d.content_type[1]
        IN  IF ~known THEN
                LET r3 == [r1 EXCEPT !.log = Append(@, "bad_content_type")]
                IN  IF "answer" \in F THEN PaginationExcept(Fail(r3, "answer"), TRUE, F)
                    ELSE Alert(r3, "content_error", "bad_content_type")
            ELSE IF "get_page" \in F THEN PaginationExcept(Fail(r2, "get_page"), TRUE, F)
            ELSE IF EmptyPage(page.items, page.total_pages) THEN
                IF "answer" \in F THEN PaginationExcept(Fail(r2, "answer"), TRUE, F)
                ELSE Alert(r2, "content_error", "empty_page")
            ELSE IF "edit_text" \in F THEN PaginationExcept(Fail(r2, "edit_text"), TRUE, F)
            ELSE
            LET kb == _get_pagination_keyboard(kind, new_page, page.total_pages)
                r3 == EditText(r2, m, kind, text, kb, new_page, page.total_pages)
            IN  IF "answer" \in F THEN PaginationExcept(Fail(r3, "answer"), TRUE, F)
                ELSE Alert(r3, "", "shown")

\* (mutant of DecodeError: the conversion error is left to the outer
\* except clause)
DecodeErrorToExcept(r0, d) ==
    Alert([r0 EXCEPT !.log = Append(@, d.log)], "update_error", "error_alert")

\* lines 275-276 and 281-282: log the decode error and return
DecodeError(r0, d) ==
    [r0 EXCEPT !.log = Append(@, d.log), !.outcome = "decode_error"]

\* CinemaBot.handle_pagination
handle_pagination(us, h, ms, tg, m, data, F) ==
    LET r0 == Start(us, h, ms)
        d  == DecodeToken(data)
    IN  IF m = 0 THEN
            IF "answer" \in F THEN PaginationExcept(Fail(r0, "answer"), FALSE, F)
            ELSE Alert(r0, "message_not_found", "no_message")
        ELSE IF ~d.ok THEN DecodeError(r0, d)
        ELSE PaginationShow(r0, tg, m, d, F)

\* CinemaBot._show_paginated_content, called with a known content_type
_show_paginated_content(r0, content_type, user_id, F) ==
    LET r1   == [r0 EXCEPT !.reads = @ + 1]
        page == IF content_type = "history"
                THEN get_user_history(r0.history, user_id, 1, PER_PAGE)
                ELSE get_user_stats(r0.history, user_id, 1, PER_PAGE)
        text == IF content_type = "history"
                THEN _format_history_message(page.items, 1, page.total_pages)
                ELSE _format_stats_message(page.items, 1, page.total_pages)
        kb   == _get_pagination_keyboard(content_type, 1, page.total_pages)
    IN  IF "get_page" \in F THEN Raise(Fail(r1, "get_page"))
        ELSE IF "send" \in F THEN Raise(Fail(r1, "send"))
        ELSE [Send(r1, Message(content_type, text, kb, 1, page.total_pages))
                EXCEPT !.outcome = "shown"]

\* CinemaBot._get_or_create_user (from_user given)
EnsureUser(r0, tg, F) ==
    IF "get_user" \in F THEN Raise(Fail([r0 EXCEPT !.reads = @ + 1], "get_user"))
    ELSE [r0 EXCEPT !.reads = @ + 1, !.users = get_or_create_user(@, tg)]

\* "Ошибка: не удалось определить пользователя" when message.from_user is None
NoFromUser(r0, F) ==
    IF "send" \in F THEN Raise(Fail(r0, "send"))
    ELSE [Send(r0, Message("text", PlainText("no_from_user"), <<>>, 0, 0))
            EXCEPT !.outcome = "no_from_user"]

\* CinemaBot.cmd_history and CinemaBot.cmd_stats
cmd_paged(us, h, ms, tg, content_type, F) ==
    LET r0 == Start(us, h, ms)
    IN  IF tg = 0 THEN NoFromUser(r0, F)
        ELSE LET r1 == EnsureUser(r0, tg, F)
             IN  IF r1.raised THEN r1
                 ELSE _show_paginated_content(r1, content_type,
                          get_user_by_telegram_id(r1.users, tg), F)

cmd_history(us, h, ms, tg, F) == cmd_paged(us, h, ms, tg, "history", F)
cmd_stats(us, h, ms, tg, F) == cmd_paged(us, h, ms, tg, "stats", F)

\* get_text(key) of app/utils/text_loader.py, the asset present
get_text(text_key) == PlainText(text_key)

\* CinemaBot.cmd_start
cmd_start(us, h, ms, tg, F) ==
    LET r0 == Start(us, h, ms)
    IN  IF tg = 0 THEN NoFromUser(r0, F)
        ELSE LET r1 == EnsureUser(r0, tg, F)
             IN  IF r1.raised THEN r1
                 ELSE IF "send" \in F THEN Raise(Fail(r1, "send"))
                 ELSE [Send(r1, Message("text", get_text("start"), <<>>, 0, 0))
                         EXCEPT !.outcome = "shown"]

\* CinemaBot.cmd_help
cmd_help(us, h, ms, tg, F) ==
    LET r0 == Start(us, h, ms)
    IN  IF "send" \in F THEN Raise(Fail(r0, "send"))
        ELSE [Send(r0, Message("text", get_text("help"), <<>>, 0, 0))
                EXCEPT !.outcome = "shown"]

\* A MovieInfo of the catalog, with the fields the handlers branch on.
Movie(movie_id) ==
    [id     |-> movie_id,
     title  |-> Title(movie_id),
     rating |-> IF movie_id % 2 = 0 THEN NULL ELSE 80,
     poster |-> movie_id % 2 = 1]

\* What KinopoiskAPI.search_movie returns: the first n records of the catalog
SearchResult(n) == [i \in 1..n |-> Movie(MovieId(i))]

\* callback_data=f"movie_{movie.id}"
MovieToken(movie_id) == <<"movie", "_">> \o Str(movie_id)

\* (mutant of SelectionKeyboard: a button for every movie returned)
SelectionKeyboardAll(movies) ==
    [i \in 1..Len(movies) |->
        [text |-> "movie", callback_data |-> MovieToken(movies[i].id)]]

\* lines 79-93 of handle_search: one button per movie of movies[:5]
SelectionKeyboard(movies) ==
    [i \in 1..Min(SEARCH_LIMIT, Len(movies)) |->
        [text |-> "movie", callback_data |-> MovieToken(movies[i].id)]]

\* CinemaBot.handle_search
handle_search(us, h, ms, tg, movies, F) ==
    LET r0 == Start(us, h, ms)
    IN  IF tg = 0 THEN NoFromUser(r0, F)
        ELSE LET r1 == EnsureUser(r0, tg, F)
             IN  IF r1.raised THEN r1
                 ELSE IF "search_movie" \in F THEN Raise(Fail(r1, "search_movie"))
                 ELSE IF "send" \in F THEN Raise(Fail(r1, "send"))
                 ELSE IF movies = <<>> THEN
                    [Send(r1, Message("text", PlainText("nothing_found"), <<>>, 0, 0))
                        EXCEPT !.outcome = "nothing_found"]
                 ELSE
                    [Send(r1, Message("select", PlainText(SELECT_TEXT),
                                      SelectionKeyboard(movies), 0, 0))
                        EXCEPT !.outcome = "shown"]

\* lines 193-195 of handle_movie_select: the except clause
MovieExcept(r, F) ==
    LET r1 == [r EXCEPT !.log = Append(@, "movie_select_failed")]
    IN  IF "answer_except" \in F THEN Raise(Fail(r1, "answer_except"))
        ELSE Alert(r1, "movie_error", "error_alert")

\* (mutant of FirstLine: the fallback literal whatever the message)
FirstLineFallback(message) == "search"

\* lines 121-122: the first line of callback.message.text, "Поиск" when the
\* message has no text (a photo has a caption, not a text)
FirstLine(message) ==
    IF message.photo THEN "search" ELSE message.text.tag

DetailText(movie) ==
    [tag |-> "detail", page |-> 0, total |-> 0, items |-> <<movie>>]

WatchKeyboard(movie) == <<[text |-> "watch", callback_data |-> <<>>]>>

\* lines 166-195 of handle_movie_select: show the detail view
MovieShow(r0, m, movie, F) ==
    LET text   == DetailText(movie)
        kb     == WatchKeyboard(movie)
        edit   == IF "edit_text" \in F THEN MovieExcept(Fail(r0, "edit_text"), F)
                  ELSE IF "answer" \in F
                  THEN MovieExcept(Fail(EditText(r0, m, "detail", text, kb, 0, 0),
                                        "answer"), F)
                  ELSE Alert(EditText(r0, m, "detail", text, kb, 0, 0), "", "shown")
        r1     == Send(r0, [Message("detail", text, kb, 0, 0) EXCEPT !.photo = TRUE])
        r1edit == IF "edit_text" \in F THEN MovieExcept(Fail(r1, "edit_text"), F)
                  ELSE IF "answer" \in F
                  THEN MovieExcept(Fail(EditText(r1, m, "detail", text, kb, 0, 0),
                                        "answer"), F)
                  ELSE Alert(EditText(r1, m, "detail", text, kb, 0, 0), "", "shown")
        r2     == [r1 EXCEPT !.msgs[m].deleted = TRUE, !.deleted = TRUE]
    IN  IF ~movie.poster THEN edit
        ELSE IF "answer_photo" \in F
        THEN [edit EXCEPT !.log = <<"poster_failed">> \o @,
                          !.failed = @ \cup {"answer_photo"}]
        ELSE IF "delete" \in F
        THEN [r1edit EXCEPT !.log = <<"poster_failed">> \o @,
                            !.failed = @ \cup {"delete"}]
        ELSE IF "answer" \in F THEN MovieExcept(Fail(r2, "answer"), F)
        ELSE Alert(r2, "", "shown")

\* (mutant of NoMovie: the selection list is deleted before the alert)
NoMovieDropsList(r0, F) ==
    Alert([r0 EXCEPT !.msgs = [i \in DOMAIN @ |-> [@[i] EXCEPT !.deleted = TRUE]]],
          "fetch_failed", "no_movie")

\* lines 112-114 of handle_movie_select: no details, alert and return
NoMovie(r0, F) ==
    IF "answer" \in F THEN MovieExcept(Fail(r0, "answer"), F)
    ELSE Alert(r0, "fetch_failed", "no_movie")

\* CinemaBot.handle_movie_select; found says whether the catalog has the
\* details of the movie
handle_movie_select(us, h, ms, tg, m, data, found, F) ==
    LET r0    == Start(us, h, ms)
        parts == Split(data)
    IN  IF m = 0 THEN
            IF "answer" \in F THEN MovieExcept(Fail(r0, "answer"), F)
            ELSE Alert(r0, "message_not_found", "no_message")
        ELSE IF ~IsInt(parts[2]) THEN MovieExcept(r0, F)      \* ValueError
        ELSE IF "get_movie_details" \in F THEN MovieExcept(Fail(r0, "get_movie_details"), F)
        ELSE IF ~found THEN NoMovie(r0, F)
        ELSE
        LET movie   == Movie(IntValue(parts[2]))
            r1      == [r0 EXCEPT !.reads = @ + 1]
            user_id == get_user_by_telegram_id(us, tg)
        IN  IF "get_user" \in F THEN MovieExcept(Fail(r1, "get_user"), F)
            ELSE IF user_id = 0 THEN
                IF "answer" \in F THEN MovieExcept(Fail(r1, "answer"), F)
                ELSE Alert(r1, "user_not_found", "no_user")
            ELSE IF "add_search_history" \in F THEN MovieExcept(Fail(r1, "add_search_history"), F)
            ELSE MovieShow(
                    [r1 EXCEPT !.writes = @ + 1,
                               !.history = add_search_history(@, user_id,
                                   FirstLine(ms[m]), movie.id, movie.title,
                                   MovieUrl(movie.id), movie.rating)],
                    m, movie, F)

\* ------------------------------------------------------ the catalog client
\* A JSON value of an upstream payload: a missing key, null, a number, a
\* text that is no number, or an object with the keys the client reads.
JMissing == [t |-> "missing"]
JNull    == [t |-> "null"]
JNum(n)  == [t |-> "num", v |-> n]
JText    == [t |-> "str"]
JRating(kp) == [t |-> "obj", kp |-> kp]
JVotes(kp, imdb) == [t |-> "obj", kp |-> kp, imdb |-> imdb]

\* Python truthiness of a JSON value, as dict.get(...) returns it
Truthy(j) ==
    /\ j.t \notin {"missing", "null"}
    /\ j.t = "num" => j.v # 0

Built(movie) == [ok |-> TRUE, error |-> "", movie |-> movie]
Error(name) == [ok |-> FALSE, error |-> name, movie |-> [id |-> 0]]

\* lines 61-82 and 104-125: MovieInfo(id=film["id"], title=film["name"],
\* rating=float(film["rating"]["kp"]) if film.get("rating", {}).get("kp")
\* else None, votes={...film["votes"]["kp"] if film.get("votes") else 0})
MovieInfo(film) ==
    IF film.id.t = "missing" \/ film.name.t = "missing" THEN Error("KeyError")
    ELSE IF film.rating.t = "null" THEN Error("AttributeError")   \* None.get("kp")
    ELSE IF film.rating.t = "obj" /\ Truthy(film.rating.kp) /\ film.rating.kp.t = "str"
    THEN Error("ValueError")                                      \* float("abc")
    ELSE IF Truthy(film.votes)
            /\ (film.votes.kp.t = "missing" \/ film.votes.imdb.t = "missing")
    THEN Error("KeyError")
    ELSE Built([id     |-> film.id.v,
                rating |-> IF film.rating.t = "obj" /\ Truthy(film.rating.kp)
                           THEN film.rating.kp.v ELSE NULL,
                votes  |-> IF Truthy(film.votes) THEN film.votes.kp.v ELSE 0])

\* except (KeyError, ValueError) of lines 84 and 126
Skipped(b) == ~b.ok /\ b.error \in {"KeyError", "ValueError"}

\* What the HTTP exchange came to: an aiohttp.ClientError, the total
\* timeout (asyncio.TimeoutError, no ClientError), a status, and for status
\* 200 the body: no JSON under a JSON content type (json.JSONDecodeError, a
\* ValueError), no JSON content type (ContentTypeError, a ClientError), or
\* the decoded payload.
Returned(movies) == [raised |-> FALSE, error |-> "", movies |-> movies]
Raised(name) == [raised |-> TRUE, error |-> name, movies |-> <<>>]

\* lines 59-86 of search_movie: the loop over data.get("docs", [])
RECURSIVE SearchLoop(_, _)
SearchLoop(docs, movies) ==
    IF docs = <<>> THEN Returned(movies)
    ELSE LET b == MovieInfo(docs[1])
         IN  IF b.ok THEN SearchLoop(Tail(docs), Append(movies, b.movie))
             ELSE IF Skipped(b) THEN SearchLoop(Tail(docs), movies)
             ELSE Raised(b.error)

\* KinopoiskAPI.search_movie
search_movie(response) ==
    IF response.kind = "client_error" THEN Returned(<<>>)
    ELSE IF response.kind = "timeout" THEN Raised("TimeoutError")
    ELSE IF response.status # 200 THEN Returned(<<>>)
    ELSE IF response.kind = "wrong_content_type" THEN Returned(<<>>)
    ELSE IF response.kind = "not_json" THEN Raised("JSONDecodeError")
    ELSE SearchLoop(response.docs, <<>>)

\* KinopoiskAPI.get_movie_details: the movie as a list of one, <<>> for None
get_movie_details(response) ==
    IF response.kind = "client_error" THEN Returned(<<>>)
    ELSE IF response.kind = "timeout" THEN Raised("TimeoutError")
    ELSE IF response.status # 200 THEN Returned(<<>>)
    ELSE IF response.kind = "wrong_content_type" THEN Returned(<<>>)
    ELSE IF response.kind = "not_json" THEN Raised("JSONDecodeError")
    ELSE LET b == MovieInfo(response.docs[1])
         IN  IF b.ok THEN Returned(<<b.movie>>)
             ELSE IF Skipped(b) THEN Returned(<<>>)
             ELSE Raised(b.error)

\* ------------------------------------------------------- the text loader
\* The texts the bot loads: get_text("start"), get_text("help")
TextKeys == {"start", "help"}

\* A text is a sequence of pieces; " " and "\n" are its white space.
WhiteSpace == {" ", "\n"}

\* str.strip()
RECURSIVE Strip(_)
Strip(t) ==
    IF t = <<>> THEN t
    ELSE IF t[1] \in WhiteSpace THEN Strip(Tail(t))
    ELSE IF t[Len(t)] \in WhiteSpace THEN Strip(SubSeq(t, 1, Len(t) - 1))
    ELSE t

\* An asset {text_key}.txt: not there, there with a content, there but not
\* to be opened (PermissionError), or there with bytes that are no UTF-8
\* (UnicodeDecodeError)
File(st, content) == [st |-> st, content |-> content]
Contents == {<<"hello">>, <<" ", "hello", " ", "again", "\n">>}
FileStates ==
    {File("missing", <<>>), File("denied", <<>>), File("not_utf8", <<>>)}
    \cup {File("ok", c) : c \in Contents}

\* the assets as the repository ships them
ShippedFiles == [k \in TextKeys |-> File("ok", <<" ", "hello", " ", "again", "\n">>)]

\* _text_cache = {}: no key is cached
Cached(text) == [hit |-> TRUE, text |-> text]
NotCached == [hit |-> FALSE, text |-> <<>>]
EmptyCache == [k \in TextKeys |-> NotCached]

\* f"Текст не найден: {text_key}"
NotFoundText(text_key) == <<"text not found: ", text_key>>

\* text_loader.get_text with its cache c and the assets fs: the text
\* returned, the cache afterwards, whether the asset was opened, and the
\* exception that left the call ("" for none)
get_text_cached(c, fs, text_key) ==
    IF c[text_key].hit
    THEN [text |-> c[text_key].text, cache |-> c, opened |-> FALSE, error |-> ""]
    ELSE IF fs[text_key].st = "missing"
    THEN [text |-> NotFoundText(text_key), cache |-> c, opened |-> TRUE, error |-> ""]
    ELSE IF fs[text_key].st = "denied"
    THEN [text |-> <<>>, cache |-> c, opened |-> TRUE, error |-> "PermissionError"]
    ELSE IF fs[text_key].st = "not_utf8"
    THEN [text |-> <<>>, cache |-> c, opened |-> TRUE, error |-> "UnicodeDecodeError"]
    ELSE LET text == Strip(fs[text_key].content)
         IN  [text |-> text, cache |-> [c EXCEPT ![text_key] = Cached(text)],
              opened |-> TRUE, error |-> ""]

\* ---------------------------------------- direct calls of the text loader
TextsGetText ==
    /\ \E text_key \in TextKeys :
        LET r == get_text_cached(cache, files, text_key)
        IN  /\ cache' = r.cache
            /\ res' = [op |-> "get_text", text_key |-> text_key, text |-> r.text,
                       opened |-> r.opened, error |-> r.error,
                       cached |-> cache[text_key]]
    /\ UNCHANGED <<users, history, msgs, last, appended, files, tasks>>

\* between two calls an asset is removed, replaced or damaged
TextsAssetChanges ==
    /\ \E text_key \in TextKeys, f \in FileStates :
        /\ f # files[text_key]
        /\ files' = [files EXCEPT ![text_key] = f]
    /\ res' = NoCall
    /\ UNCHANGED <<users, history, msgs, last, appended, cache, tasks>>

NextTexts ==
    \/ TextsGetText
    \/ TextsAssetChanges

InitTexts ==
    /\ users = <<>>
    /\ history = <<>>
    /\ msgs = <<>>
    /\ last = NoEvent
    /\ res = NoCall
    /\ appended = 0
    /\ \E f \in FileStates : files = [k \in TextKeys |-> f]
    /\ cache = EmptyCache
    /\ tasks = <<>>

SpecTexts == InitTexts /\ [][NextTexts]_vars

\* ------------------------------------------------ direct calls of the store
InitStore ==
    /\ users = StoredUsers(2)
    /\ \E n \in 0..MaxInitRows : \E d \in {1, 3, Max(1, n)} : \E alt \in BOOLEAN :
          history = StoredHistory(n, d, alt)
    /\ msgs = <<>>
    /\ last = NoEvent
    /\ res = NoCall
    /\ appended = 0
    /\ files = ShippedFiles
    /\ cache = EmptyCache
    /\ tasks = <<>>

Pages == 0..MaxPage
PerPages == {1, 2, 3, PER_PAGE}

StoreGetUserHistory ==
    /\ res = NoCall
    /\ \E user_id \in 1..Len(users), page \in Pages, per_page \in PerPages :
        LET r == get_user_history(history, user_id, page, per_page)
        IN  /\ res' = [op |-> "get_user_history", user_id |-> user_id,
                       page |-> page, per_page |-> per_page,
                       items |-> r.items, total_pages |-> r.total_pages]
            /\ UNCHANGED <<users, history, msgs, last, appended, files, cache, tasks>>

StoreGetUserStats ==
    /\ res = NoCall
    /\ \E user_id \in 1..Len(users), page \in Pages, per_page \in PerPages :
        LET r == get_user_stats(history, user_id, page, per_page)
        IN  /\ res' = [op |-> "get_user_stats", user_id |-> user_id,
                       page |-> page, per_page |-> per_page,
                       items |-> r.items, total_pages |-> r.total_pages]
            /\ UNCHANGED <<users, history, msgs, last, appended, files, cache, tasks>>

StoreAddSearchHistory ==
    /\ res = NoCall
    /\ appended < MaxAppend
    /\ appended' = appended + 1
    /\ \E k \in 1..2 :
          /\ history' = add_search_history(history, 1, SELECT_TEXT,
                            MovieId(k), Title(MovieId(k)), MovieUrl(MovieId(k)), 80)
          /\ res' = [op |-> "add_search_history", user_id |-> 1]
    /\ UNCHANGED <<users, msgs, last, files, cache, tasks>>

\* the caller has taken the result
StoreReturn ==
    /\ res # NoCall
    /\ res' = NoCall
    /\ UNCHANGED <<users, history, msgs, last, appended, files, cache, tasks>>

NextStore ==
    \/ StoreReturn
    \/ StoreGetUserHistory
    \/ StoreGetUserStats
    \/ StoreAddSearchHistory

SpecStore == InitStore /\ [][NextStore]_vars

\* ------------------------------------------ direct calls of the catalog
\* The films an upstream payload may hold
Films ==
    { [id |-> i, name |-> JText, rating |-> r, votes |-> v] :
        i \in {JMissing, JNum(MovieId(1)), JNum(MovieId(2))},
        r \in {JMissing, JNull, JRating(JNum(75)), JRating(JText), JRating(JNum(0))},
        v \in {JMissing, JNull, JVotes(JNum(10), JNum(5)), JVotes(JNum(10), JMissing)} }

RECURSIVE FilmLists(_)
FilmLists(n) ==
    IF n = 0 THEN {<<>>}
    ELSE FilmLists(n - 1)
         \cup {Append(l, f) : l \in {x \in FilmLists(n - 1) : Len(x) = n - 1}, f \in Films}

Payload(docs) == [kind |-> "payload", status |-> 200, docs |-> docs]

Failures ==
    { [kind |-> "client_error", status |-> 0, docs |-> <<>>],
      [kind |-> "timeout", status |-> 0, docs |-> <<>>],
      [kind |-> "payload", status |-> 500, docs |-> <<>>],
      [kind |-> "wrong_content_type", status |-> 200, docs |-> <<>>],
      [kind |-> "not_json", status |-> 200, docs |-> <<>>] }

CatalogSearchMovie ==
    /\ res = NoCall
    /\ \E response \in Failures \cup {Payload(l) : l \in FilmLists(MaxDocs)} :
        LET r == search_movie(response)
        IN  res' = [op |-> "search_movie", response |-> response,
                    raised |-> r.raised, error |-> r.error, movies |-> r.movies]
    /\ UNCHANGED <<users, history, msgs, last, appended, files, cache, tasks>>

CatalogGetMovieDetails ==
    /\ res = NoCall
    /\ \E response \in Failures \cup {Payload(<<f>>) : f \in Films} :
        LET r == get_movie_details(response)
        IN  res' = [op |-> "get_movie_details", response |-> response,
                    raised |-> r.raised, error |-> r.error, movies |-> r.movies]
    /\ UNCHANGED <<users, history, msgs, last, appended, files, cache, tasks>>

NextCatalog ==
    \/ StoreReturn
    \/ CatalogSearchMovie
    \/ CatalogGetMovieDetails

InitCatalog ==
    /\ users = <<>>
    /\ history = <<>>
    /\ msgs = <<>>
    /\ last = NoEvent
    /\ res = NoCall
    /\ appended = 0
    /\ files = ShippedFiles
    /\ cache = EmptyCache
    /\ tasks = <<>>

SpecCatalog == InitCatalog /\ [][NextCatalog]_vars

\* ------------------------------------------------------------- the bot runs
\* The person in the chat; 1002 is known to the store only.  A message
\* event may also come without from_user (0).
Actor == 1001
Senders == {Actor, 0}

\* At start-up the store is empty, or holds one page or MaxInitRows rows:
\* all of the actor (one user), or every other one of user 2 (two users).
Init ==
    /\ \E k \in 0..2 :
          /\ users = StoredUsers(k)
          /\ \E n \in {0, PER_PAGE, MaxInitRows} : \E d \in {1, Max(1, n)} :
                /\ k = 0 => n = 0
                /\ history = StoredHistory(n, d, k = 2)
    /\ msgs = <<>>
    /\ last = NoEvent
    /\ res = NoCall
    /\ appended = 0
    /\ files = ShippedFiles
    /\ cache = EmptyCache
    /\ tasks = <<>>

\* Tokens a client may send that no keyboard of the current chat carries.
ForgedTokens ==
    { <<"pagination", "_">>,
      <<"pagination", "_", "history", "_", "next">>,
      <<"pagination", "_", "history", "_", "next", "_", "1", "_", "2">>,
      <<"pagination", "_", "history", "_", "next", "_", "abc">>,
      <<"pagination", "_", "stats", "_", "prev", "_">>,
      <<"pagination", "_", "other", "_", "next", "_", "1">>,
      PaginationToken("history", "next", 1),
      PaginationToken("history", "next", 3),
      PaginationToken("stats", "next", 3),
      PaginationToken("stats", "prev", 2),
      PaginationToken("history", "prev", 1),
      PaginationToken("history", "next", 0 - 1) }

\* The tokens on the keyboard of message m
ButtonTokens(m) == {msgs[m].kb[b].callback_data : b \in DOMAIN msgs[m].kb}

\* Messages a callback can come from: still there, and with a text
Pressable == {m \in DOMAIN msgs : ~msgs[m].deleted /\ ~msgs[m].photo}

\* F.data.startswith("pagination_") and F.data.startswith("movie_")
IsPaginationData(data) == StartsWith(data, <<"pagination", "_">>)
IsMovieData(data) == StartsWith(data, <<"movie", "_">>)

\* The calls of a handler that fail during one event: none when the
\* collaborators work, any of them when they may fail
FaultPlans(faulty, sites) ==
    IF faulty THEN {F \in SUBSET sites : Cardinality(F) <= MaxFaults} ELSE {{}}

\* The handler has run: the tables, the chat and the record of the event
\* (found: whether the catalog had what the event asked for).  The chat
\* holds MaxMsgs messages; a selection that sends the photo and then fails
\* to delete the list may leave one more.
Handled(handler, tg, m, data, found, F, r) ==
    /\ Cardinality({i \in DOMAIN r.msgs : ~r.msgs[i].deleted})
          <= MaxMsgs + (IF handler = "handle_movie_select" THEN 1 ELSE 0)
    /\ appended + r.writes <= MaxAppend
    /\ users' = r.users
    /\ history' = r.history
    /\ msgs' = r.msgs
    /\ appended' = appended + r.writes
    /\ last' = [handler |-> handler, from_user |-> tg, msg |-> m, data |-> data,
                found |-> found, failed |-> r.failed, answers |-> r.answers, reads |-> r.reads,
                writes |-> r.writes, edited |-> r.edited, sent |-> r.sent,
                deleted |-> r.deleted, raised |-> r.raised, log |-> r.log,
                outcome |-> r.outcome]
    /\ UNCHANGED <<res, files, cache, tasks>>

CmdStart(faulty) ==
    /\ last = NoEvent
    /\ \E tg \in Senders, F \in FaultPlans(faulty, {"get_user", "send"}) :
        Handled("cmd_start", tg, 0, <<>>, TRUE, F, cmd_start(users, history, msgs, tg, F))

CmdHelp(faulty) ==
    /\ last = NoEvent
    /\ \E tg \in Senders, F \in FaultPlans(faulty, {"send"}) :
        Handled("cmd_help", tg, 0, <<>>, TRUE, F, cmd_help(users, history, msgs, tg, F))

CmdHistory(faulty) ==
    /\ last = NoEvent
    /\ \E tg \in Senders, F \in FaultPlans(faulty, {"get_user", "get_page", "send"}) :
        Handled("cmd_history", tg, 0, <<>>, TRUE, F, cmd_history(users, history, msgs, tg, F))

CmdStats(faulty) ==
    /\ last = NoEvent
    /\ \E tg \in Senders, F \in FaultPlans(faulty, {"get_user", "get_page", "send"}) :
        Handled("cmd_stats", tg, 0, <<>>, TRUE, F, cmd_stats(users, history, msgs, tg, F))

\* (the event of a search records the ids the catalog returned as its data)
HandleSearch(faulty) ==
    /\ last = NoEvent
    /\ \E tg \in Senders, n \in {0, 1, SEARCH_LIMIT + 1},
       F \in FaultPlans(faulty, {"get_user", "search_movie", "send"}) :
        Handled("handle_search", tg, 0, [i \in 1..n |-> SearchResult(n)[i].id], n > 0, F,
                handle_search(users, history, msgs, tg, SearchResult(n), F))

\* A callback comes from whoever pressed the button: in a group chat any
\* member, pressers being the members who press
HandleMovieSelect(faulty, pressers) ==
    /\ last = NoEvent
    /\ \E m \in {i \in Pressable : msgs[i].kind = "select"} \cup {0},
          found \in BOOLEAN, tg \in pressers,
          F \in FaultPlans(faulty, {"answer", "get_movie_details", "get_user",
                                   "add_search_history", "answer_photo", "delete",
                                   "edit_text", "answer_except"}) :
          \E data \in (IF m = 0 THEN {} ELSE {msgs[m].kb[1].callback_data})
                      \cup {MovieToken(MovieId(2)), <<"movie", "_", "abc">>} :
             /\ IsMovieData(data)
             /\ Handled("handle_movie_select", tg, m, data, found, F,
                        handle_movie_select(users, history, msgs, tg, m, data,
                                            found, F))

HandlePagination(faulty, pressers) ==
    /\ last = NoEvent
    /\ \E m \in Pressable \cup {0}, tg \in pressers,
          F \in FaultPlans(faulty, {"answer", "get_user", "get_page", "edit_text",
                                   "answer_except"}) :
          \E data \in (IF m = 0 THEN {} ELSE ButtonTokens(m)) \cup ForgedTokens :
             /\ IsPaginationData(data)
             /\ Handled("handle_pagination", tg, m, data, TRUE, F,
                        handle_pagination(users, history, msgs, tg, m, data, F))

\* Dispatcher.start_polling: the event is done with, the next one is taken
NextUpdate ==
    /\ last # NoEvent
    /\ last' = NoEvent
    /\ UNCHANGED <<users, history, msgs, res, appended, files, cache, tasks>>

Next ==
    \/ NextUpdate
    \/ CmdStart(FALSE)
    \/ CmdHelp(FALSE)
    \/ CmdHistory(FALSE)
    \/ CmdStats(FALSE)
    \/ HandleSearch(FALSE)
    \/ HandleMovieSelect(FALSE, {Actor})
    \/ HandlePagination(FALSE, {Actor})

Spec == Init /\ [][Next]_vars

\* The same bot with collaborators that may fail
NextFaults ==
    \/ NextUpdate
    \/ CmdStart(TRUE)
    \/ CmdHelp(TRUE)
    \/ CmdHistory(TRUE)
    \/ CmdStats(TRUE)
    \/ HandleSearch(TRUE)
    \/ HandleMovieSelect(TRUE, {Actor})
    \/ HandlePagination(TRUE, {Actor})

InitFaults ==
    /\ \E k \in 0..1 :
          /\ users = StoredUsers(k)
          /\ \E n \in {0, MaxInitRows} :
                /\ k = 0 => n = 0
                /\ history = StoredHistory(n, Max(1, n), FALSE)
    /\ msgs = <<>>
    /\ last = NoEvent
    /\ res = NoCall
    /\ appended = 0
    /\ files = ShippedFiles
    /\ cache = EmptyCache
    /\ tasks = <<>>

SpecFaults == InitFaults /\ [][NextFaults]_vars

\* The bot in a group chat: the actor searches, any member presses the
\* buttons, and the collaborators of a selection may fail
NextSelect ==
    \/ NextUpdate
    \/ HandleSearch(FALSE)
    \/ HandleMovieSelect(TRUE, TgIds)
    \/ HandlePagination(FALSE, TgIds)

SpecSelect == InitFaults /\ [][NextSelect]_vars

\* --------------------------------- get_or_create_user, call by call
\* start_polling hands every update to a task of its own, so the store
\* calls of two events interleave at their awaits.  A task of
\* get_or_create_user stands before its select (line 35), before its commit
\* (line 46), or is over: it returned the row user, or it raised.
UserTask(telegram_id, pc, user, error) ==
    [op |-> "get_or_create_user", telegram_id |-> telegram_id, pc |-> pc,
     user |-> user, error |-> error]

\* an event of telegram_id reaches self.db.get_or_create_user
UsersCall ==
    /\ Len(tasks) < MaxTasks
    /\ \E telegram_id \in TgIds :
          tasks' = Append(tasks, UserTask(telegram_id, "select", 0, ""))
    /\ UNCHANGED <<users, history, msgs, last, res, appended, files, cache>>

\* lines 35-40: the select; a row found is returned as it is
UsersSelect ==
    /\ \E t \in DOMAIN tasks :
          /\ tasks[t].op = "get_or_create_user"
          /\ tasks[t].pc = "select"
          /\ LET user == get_user_by_telegram_id(users, tasks[t].telegram_id)
             IN  tasks' = [tasks EXCEPT ![t] =
                    IF user # 0 THEN UserTask(@.telegram_id, "returned", user, "")
                    ELSE UserTask(@.telegram_id, "commit", 0, "")]
    /\ UNCHANGED <<users, history, msgs, last, res, appended, files, cache>>

\* lines 41-50: the insert is flushed and committed.  telegram_id is a
\* unique column (models.py line 13): the insert of a value the table
\* holds by now is refused and commit raises IntegrityError.
UsersCommit ==
    /\ \E t \in DOMAIN tasks :
          /\ tasks[t].op = "get_or_create_user"
          /\ tasks[t].pc = "commit"
          /\ IF \E i \in DOMAIN users : users[i].telegram_id = tasks[t].telegram_id
             THEN /\ tasks' = [tasks EXCEPT ![t] =
                         UserTask(@.telegram_id, "raised", 0, "IntegrityError")]
                  /\ users' = users
             ELSE /\ users' = Append(users, [telegram_id |-> tasks[t].telegram_id])
                  /\ tasks' = [tasks EXCEPT ![t] =
                         UserTask(@.telegram_id, "returned", Len(users) + 1, "")]
    /\ UNCHANGED <<history, msgs, last, res, appended, files, cache>>

NextUsers ==
    \/ UsersCall
    \/ UsersSelect
    \/ UsersCommit

InitUsers ==
    /\ \E k \in 0..2 : users = StoredUsers(k)
    /\ history = <<>>
    /\ msgs = <<>>
    /\ last = NoEvent
    /\ res = NoCall
    /\ appended = 0
    /\ files = ShippedFiles
    /\ cache = EmptyCache
    /\ tasks = <<>>

SpecUsers == InitUsers /\ [][NextUsers]_vars

\* ------------------------------------------------- the bot in many chats
\* The store is one for all chats of the bot.  While the chat of the model
\* goes on, the actor picks a film in another chat and lines 123-130 of
\* handle_movie_select append its row: a film of the table's first row,
\* or one the table does not hold yet.
SelectElsewhere ==
    /\ appended < MaxAppend
    /\ appended' = appended + 1
    /\ \E k \in {1, MaxInitRows + 1} :
          LET movie == Movie(MovieId(k))
          IN  history' = add_search_history(history, 1, SELECT_TEXT, movie.id,
                             movie.title, MovieUrl(movie.id), movie.rating)
    /\ UNCHANGED <<users, msgs, last, res, files, cache, tasks>>

\* ------------------------------------------------- the bot in a group chat
\* The actor sends the commands and the searches, every member of the chat
\* can press the buttons of the messages, and rows are appended meanwhile:
\* by a selection in this chat, or by one made in another chat of the bot.
NextGroup ==
    \/ NextUpdate
    \/ CmdHistory(FALSE)
    \/ CmdStats(FALSE)
    \/ HandleSearch(FALSE)
    \/ HandleMovieSelect(FALSE, TgIds)
    \/ HandlePagination(FALSE, TgIds)
    \/ SelectElsewhere

\* Both members are known to the store; the rows are the actor's, or every
\* other one is of the other member.
InitGroup ==
    /\ users = StoredUsers(2)
    /\ \E n \in {MaxInitRows} : \E alt \in BOOLEAN :
          history = StoredHistory(n, n, alt)
    /\ msgs = <<>>
    /\ last = NoEvent
    /\ res = NoCall
    /\ appended = 0
    /\ files = ShippedFiles
    /\ cache = EmptyCache
    /\ tasks = <<>>

SpecGroup == InitGroup /\ [][NextGroup]_vars

\* --------------------------------------- a burst of presses on one message
\* Every callback runs as a task of its own; handle_pagination gives way at
\* its awaits: get_user_by_telegram_id (line 284), get_user_history or
\* get_user_stats (lines 292, 295) and edit_text (line 308).  A task
\* records the token it was given, where it stands, what the store gave it
\* (rows: the size of search_history when it read its page) and what it
\* wrote into the message.
PaginationTask(tg, m, data) ==
    [op |-> "handle_pagination", from_user |-> tg, msg |-> m, data |-> data,
     pc |-> "get_user", user |-> 0, rows |-> 0, new_page |-> 0,
     page |-> [items |-> <<>>, total_pages |-> 0],
     outcome |-> "running", shown |-> <<>>]

\* tokens already delivered from message m: a press made before the edit
\* reached the client carries the token of the buttons as they were
DeliveredTokens(m) ==
    {tasks[t].data : t \in {i \in DOMAIN tasks :
                                tasks[i].op = "handle_pagination" /\ tasks[i].msg = m}}

\* lines 266-282: the callback of a press arrives and its token is decoded
\* (the presses of a run are all on one message)
PaginationPress ==
    /\ Len(tasks) < MaxPresses
    /\ \E m \in Pressable :
          \E data \in ButtonTokens(m) \cup DeliveredTokens(m) :
             /\ \A t \in DOMAIN tasks : tasks[t].msg = m
             /\ IsPaginationData(data)
             /\ DecodeToken(data).ok
             /\ tasks' = Append(tasks, PaginationTask(Actor, m, data))
    /\ UNCHANGED <<users, history, msgs, last, res, appended, files, cache>>

\* lines 284-287
PaginationGetUser ==
    /\ \E t \in DOMAIN tasks :
          /\ tasks[t].op = "handle_pagination"
          /\ tasks[t].pc = "get_user"
          /\ LET user == get_user_by_telegram_id(users, tasks[t].from_user)
             IN  tasks' = [tasks EXCEPT ![t] =
                    IF user = 0
                    THEN [@ EXCEPT !.pc = "done", !.outcome = "no_user"]
                    ELSE [@ EXCEPT !.pc = "get_page", !.user = user]]
    /\ UNCHANGED <<users, history, msgs, last, res, appended, files, cache>>

\* lines 289-304
PaginationGetPage ==
    /\ \E t \in DOMAIN tasks :
          /\ tasks[t].op = "handle_pagination"
          /\ tasks[t].pc = "get_page"
          /\ LET d        == DecodeToken(tasks[t].data)
                 new_page == NewPage(d.action, d.current_page)
                 page     == IF d.content_type = <<"history">>
                             THEN get_user_history(history, tasks[t].user,
                                                   new_page, PER_PAGE)
                             ELSE get_user_stats(history, tasks[t].user,
                                                 new_page, PER_PAGE)
             IN  tasks' = [tasks EXCEPT ![t] =
                    IF d.content_type \notin {<<"history">>, <<"stats">>}
                    THEN [@ EXCEPT !.pc = "done", !.outcome = "bad_content_type"]
                    ELSE IF EmptyPage(page.items, page.total_pages)
                    THEN [@ EXCEPT !.pc = "done", !.outcome = "empty_page",
                                   !.rows = Len(history), !.new_page = new_page,
                                   !.page = page]
                    ELSE [@ EXCEPT !.pc = "edit_text", !.rows = Len(history),
                                   !.new_page = new_page, !.page = page]]
    /\ UNCHANGED <<users, history, msgs, last, res, appended, files, cache>>

\* lines 306-313
PaginationEditText ==
    /\ \E t \in DOMAIN tasks :
          /\ tasks[t].op = "handle_pagination"
          /\ tasks[t].pc = "edit_text"
          /\ LET d    == DecodeToken(tasks[t].data)
                 kind == d.content_type[1]
                 page == tasks[t].page
                 text == IF kind = "history"
                         THEN _format_history_message(page.items, tasks[t].new_page,
                                                      page.total_pages)
                         ELSE _format_stats_message(page.items, tasks[t].new_page,
                                                    page.total_pages)
                 kb   == _get_pagination_keyboard(kind, tasks[t].new_page,
                                                  page.total_pages)
                 r    == EditText(Start(users, history, msgs), tasks[t].msg, kind,
                                  text, kb, tasks[t].new_page, page.total_pages)
             IN  /\ msgs' = r.msgs
                 /\ tasks' = [tasks EXCEPT ![t] =
                        [@ EXCEPT !.pc = "done", !.outcome = "shown",
                                  !.shown = [text |-> r.msgs[tasks[t].msg].text,
                                             kb   |-> r.msgs[tasks[t].msg].kb]]]
    /\ UNCHANGED <<users, history, last, res, appended, files, cache>>

\* The actor presses in a burst, and rows are appended meanwhile by
\* selections made elsewhere.
NextBurst ==
    \/ PaginationPress
    \/ PaginationGetUser
    \/ PaginationGetPage
    \/ PaginationEditText
    \/ SelectElsewhere

\* The actor has asked for the history or the statistics: the chat holds
\* the message cmd_history or cmd_stats sent, page 1.
InitBurst ==
    /\ users = StoredUsers(1)
    /\ history = StoredHistory(MaxInitRows, MaxInitRows, FALSE)
    /\ \E content_type \in {"history", "stats"} :
          msgs = cmd_paged(users, history, <<>>, Actor, content_type, {}).msgs
    /\ last = NoEvent
    /\ res = NoCall
    /\ appended = 0
    /\ files = ShippedFiles
    /\ cache = EmptyCache
    /\ tasks = <<>>

SpecBurst == InitBurst /\ [][NextBurst]_vars

\* =================================================================== claims
\* Vocabulary of the claims about the store, stated from the tables alone.
RowIdsOf(user_id) == {i \in DOMAIN history : history[i].user_id = user_id}
GroupKeysOf(user_id) == {GroupKey(history[i]) : i \in RowIdsOf(user_id)}

\* ceil(a / b) for a >= 0, b >= 1
CeilDiv(a, b) == CHOOSE k \in 0..a : k * b >= a /\ (k = 0 \/ (k - 1) * b < a)

\* the id of the user's row with exactly rank newer rows
RowAtRank(user_id, rank) ==
    CHOOSE i \in RowIdsOf(user_id) :
        Cardinality({j \in RowIdsOf(user_id) : j > i}) = rank

RECURSIVE ConcatPages(_, _, _)
ConcatPages(user_id, per_page, upto) ==
    IF upto = 0 THEN <<>>
    ELSE ConcatPages(user_id, per_page, upto - 1)
         \o get_user_history(history, user_id, upto, per_page).items

\* C1: get_user_history and get_user_stats return
\* total_pages = max(1, ceil(total_count / per_page)), total_count being the
\* unwindowed number of the user's rows (history) or of the user's distinct
\* (movie id, title, URL) groups (stats), whatever page is requested.
C1_TotalPagesFormula ==
    res.op \in {"get_user_history", "get_user_stats"} =>
        LET total_count == IF res.op = "get_user_history"
                           THEN Cardinality(RowIdsOf(res.user_id))
                           ELSE Cardinality(GroupKeysOf(res.user_id))
        IN  res.total_pages = Max(1, CeilDiv(total_count, res.per_page))

\* C1 witness: a stats call for a page beyond the end, 11 or more groups,
\* five per page, three pages.
C1_Witness ==
    /\ res.op = "get_user_stats"
    /\ res.per_page = PER_PAGE
    /\ res.page = 4
    /\ Cardinality(GroupKeysOf(res.user_id)) = 12
    /\ res.total_pages = 3

\* C4: get_user_history(user, p, per_page) with p >= 1 returns exactly the
\* rows at newest-first ranks (p-1)*per_page .. min(p*per_page, n)-1; the
\* pages 1..total_pages concatenated are the whole history newest-first; a
\* page beyond total_pages is empty and reports the same total_pages.
C4_HistoryWindow ==
    (res.op = "get_user_history" /\ res.page >= 1) =>
        LET u  == res.user_id
            n  == Cardinality(RowIdsOf(u))
            lo == (res.page - 1) * res.per_page
            hi == Min(res.page * res.per_page, n) - 1
            all == ConcatPages(u, res.per_page, res.total_pages)
        IN  /\ Len(res.items) = Max(0, hi - lo + 1)
            /\ \A k \in 1..Len(res.items) :
                  res.items[k] = history[RowAtRank(u, lo + k - 1)]
            /\ Len(all) = n
            /\ \A r \in 0..(n - 1) : all[r + 1] = history[RowAtRank(u, r)]
            /\ res.page > res.total_pages =>
                  /\ res.items = <<>>
                  /\ res.total_pages =
                        get_user_history(history, u, 1, res.per_page).total_pages

\* C4 witness: 12 rows, five per page, page 3 holds the 2 oldest rows.
C4_Witness ==
    /\ res.op = "get_user_history"
    /\ Cardinality(RowIdsOf(res.user_id)) = 12
    /\ res.per_page = PER_PAGE
    /\ res.page = 3
    /\ Len(res.items) = 2
    /\ res.total_pages = 3

\* ------------------------------------------- vocabulary of the bot's claims
Paged(i) == msgs[i].kind \in {"history", "stats"} /\ ~msgs[i].deleted

HasButton(i, text) == \E b \in DOMAIN msgs[i].kb : msgs[i].kb[b].text = text

\* the direction a button stands for
Direction(text) == IF text = "back" THEN "prev" ELSE "next"

\* what a token must decode to when it stands for (kind, direction, page)
Decoded(kind, direction, page) ==
    [ok |-> TRUE, content_type |-> <<kind>>, action |-> <<direction>>,
     current_page |-> page]

\* the segments of a token, counted and cut without Split
SegmentCount(data) == 1 + Cardinality({i \in DOMAIN data : data[i] = "_"})
LastSegment(data) ==
    LET cuts == {i \in DOMAIN data : data[i] = "_"}
        from == IF cuts = {} THEN 0 ELSE CHOOSE i \in cuts : \A j \in cuts : j <= i
    IN  SubSeq(data, from + 1, Len(data))
LooksInteger(seg) ==
    /\ seg # <<>>
    /\ \A i \in DOMAIN seg :
          \/ seg[i] \in {"0", "1", "2", "3", "4", "5", "6", "7", "8", "9"}
          \/ i = 1 /\ seg[i] \in {"-", "+"} /\ Len(seg) > 1
Malformed(data) == SegmentCount(data) # 4 \/ ~LooksInteger(LastSegment(data))

\* an alert was shown: callback.answer(text, show_alert=True) went through
Alerted == \E a \in DOMAIN last.answers : last.answers[a] # ""

\* the store row of the user the event came from (0: none)
ActingUser == get_user_by_telegram_id(users, last.from_user)

PaginationEvent == last.handler = "handle_pagination"

\* C2: for every content kind, direction and page in [1, total_pages], the
\* token _get_pagination_keyboard builds for (kind, direction, page) is
\* decoded by handle_pagination back to the same (kind, direction, page).
C2_TokenRoundTrip ==
    \A i \in DOMAIN msgs : Paged(i) =>
        \A kind \in {"history", "stats"}, p \in 1..msgs[i].total :
            LET kb == _get_pagination_keyboard(kind, p, msgs[i].total)
            IN  \A b \in DOMAIN kb :
                    DecodeToken(kb[b].callback_data)
                        = Decoded(kind, Direction(kb[b].text), p)

\* C2 witness: a rendered button of page 1 of 3 was pressed and decoded,
\* the message now shows page 2 with both buttons.
C2_Witness ==
    /\ PaginationEvent
    /\ last.outcome = "shown"
    /\ last.data = PaginationToken("history", "next", 1)
    /\ msgs[last.msg].page = 2
    /\ msgs[last.msg].total = 3
    /\ Len(msgs[last.msg].kb) = 2

\* C3: a token whose number of segments is not 4, or whose 4th segment is
\* not an integer, ends decoding in the decode-error return: no store read,
\* no message edit, no exception leaves handle_pagination -- whichever
\* collaborator calls would fail.
C3_DecodeError ==
    (PaginationEvent /\ last.msg # 0 /\ Malformed(last.data)) =>
        /\ last.outcome = "decode_error"
        /\ last.reads = 0
        /\ ~last.edited
        /\ ~last.raised
        /\ last.sent = 0

\* C3 witness: "pagination_history_next_abc" arrived from a message
C3_Witness ==
    /\ PaginationEvent
    /\ last.msg # 0
    /\ last.data = <<"pagination", "_", "history", "_", "next", "_", "abc">>
    /\ last.outcome = "decode_error"

\* C5: for a user with zero history rows page 1 of get_user_history and of
\* get_user_stats is an empty list with total_pages 1, and the history or
\* stats command shows the fixed empty text with no button.
C5_EmptyFirstPage ==
    (/\ last.handler \in {"cmd_history", "cmd_stats"}
     /\ last.from_user # 0
     /\ RowIdsOf(ActingUser) = {}) =>
        /\ get_user_history(history, ActingUser, 1, PER_PAGE)
              = [items |-> <<>>, total_pages |-> 1]
        /\ get_user_stats(history, ActingUser, 1, PER_PAGE)
              = [items |-> <<>>, total_pages |-> 1]
        /\ last.sent = 1
        /\ msgs[Len(msgs)].text =
              PlainText(IF last.handler = "cmd_history"
                        THEN "history_empty" ELSE "stats_empty")
        /\ msgs[Len(msgs)].total = 1
        /\ msgs[Len(msgs)].kb = <<>>

\* C5 witness: /stats of a user without rows
C5_Witness ==
    /\ last.handler = "cmd_stats"
    /\ last.from_user # 0
    /\ RowIdsOf(ActingUser) = {}
    /\ msgs[Len(msgs)].text = PlainText("stats_empty")

\* the page a decoded token asks for, and the user's page count, as the
\* claims state them
AskedPage(d) ==
    IF d.action = <<"next">> THEN d.current_page + 1 ELSE d.current_page - 1

PageCount(kind) ==
    Max(1, CeilDiv(IF kind = <<"history">>
                   THEN Cardinality(RowIdsOf(ActingUser))
                   ELSE Cardinality(GroupKeysOf(ActingUser)), PER_PAGE))

\* a pagination event that got as far as fetching a page
Fetching ==
    /\ PaginationEvent
    /\ last.msg # 0
    /\ ~Malformed(last.data)
    /\ ActingUser # 0
    /\ DecodeToken(last.data).content_type \in {<<"history">>, <<"stats">>}

\* C6: a paged message on its last page has no forward button, and a next
\* token carrying current_page = total_pages is answered with an alert and
\* edits nothing.
C6_NextFromLastPage ==
    /\ \A i \in DOMAIN msgs :
          (Paged(i) /\ msgs[i].page = msgs[i].total) => ~HasButton(i, "forward")
    /\ (/\ Fetching
        /\ DecodeToken(last.data).action = <<"next">>
        /\ DecodeToken(last.data).current_page
              = PageCount(DecodeToken(last.data).content_type)) =>
          /\ Alerted
          /\ ~last.edited
          /\ last.sent = 0

\* C6 witness: next pressed with page 1 of 1, five rows
C6_Witness ==
    /\ Fetching
    /\ last.data = PaginationToken("history", "next", 1)
    /\ Cardinality(RowIdsOf(ActingUser)) = PER_PAGE
    /\ Alerted
    /\ Paged(last.msg)
    /\ msgs[last.msg].page = 1

\* C7: every paged message carries a back button iff its page > 1 and a
\* forward button iff its page < its total_pages, each token standing for
\* the message's own (kind, direction, page); /history and /stats render
\* page 1 as a new message.
C7_Buttons ==
    /\ \A i \in DOMAIN msgs : Paged(i) =>
          /\ HasButton(i, "back") <=> msgs[i].page > 1
          /\ HasButton(i, "forward") <=> msgs[i].page < msgs[i].total
          /\ \A b \in DOMAIN msgs[i].kb :
                /\ msgs[i].kb[b].text \in {"back", "forward"}
                /\ msgs[i].kb[b].callback_data
                      = <<"pagination", "_", msgs[i].kind, "_",
                          Direction(msgs[i].kb[b].text), "_">>
                        \o Str(msgs[i].page)
    /\ (last.handler \in {"cmd_history", "cmd_stats"} /\ last.from_user # 0) =>
          /\ last.sent = 1
          /\ ~last.edited
          /\ msgs[Len(msgs)].page = 1
          /\ msgs[Len(msgs)].kind
                = (IF last.handler = "cmd_history" THEN "history" ELSE "stats")
          /\ msgs[Len(msgs)].total
                = PageCount(<<msgs[Len(msgs)].kind>>)

\* C7 witness: a pagination event left the message on page 3 of 3 with a
\* back button only
C7_Witness ==
    /\ PaginationEvent
    /\ last.edited
    /\ msgs[last.msg].page = 3
    /\ msgs[last.msg].total = 3
    /\ HasButton(last.msg, "back")
    /\ ~HasButton(last.msg, "forward")

\* the window the pagination event e asks the store for
AskedWindow(e) ==
    LET d       == DecodeToken(e.data)
        user_id == get_user_by_telegram_id(users, e.from_user)
    IN  IF d.content_type = <<"history">>
        THEN get_user_history(history, user_id, AskedPage(d), PER_PAGE)
        ELSE get_user_stats(history, user_id, AskedPage(d), PER_PAGE)

\* C8: a pagination event sends no message and deletes none and touches no
\* message but its own; once it fetches a page, either the window is empty
\* (total_pages > 0), an alert is shown and the message is left as it was,
\* or the same message is edited in place to the text of the asked page
\* with the buttons of (new_page, total_pages).
C8_TwoOutcomes ==
    [][(last = NoEvent /\ last'.handler = "handle_pagination") =>
          /\ Len(msgs') = Len(msgs)
          /\ last'.sent = 0
          /\ ~last'.deleted
          /\ \A i \in DOMAIN msgs :
                /\ msgs'[i].deleted = msgs[i].deleted
                /\ msgs'[i].photo = msgs[i].photo
                /\ i # last'.msg => msgs'[i] = msgs[i]
          /\ users' = users
          /\ history' = history
          /\ Fetching' =>
                LET page == AskedWindow(last')
                IN
                IF page.items = <<>> /\ page.total_pages > 0
                THEN /\ Alerted'
                     /\ ~last'.edited
                     /\ msgs' = msgs
                ELSE LET d == DecodeToken(last'.data)
                         m == last'.msg
                     IN  /\ ~Alerted'
                         /\ last'.edited
                         /\ msgs'[m].text.page = AskedPage(d)
                         /\ msgs'[m].text.total = page.total_pages
                         /\ msgs'[m].text.items = page.items
                         /\ msgs'[m].text.tag
                               = (IF d.content_type = <<"history">>
                                  THEN "history_page" ELSE "stats_page")
                         /\ msgs'[m].kb
                               = _get_pagination_keyboard(d.content_type[1],
                                     AskedPage(d), page.total_pages)
      ]_vars

\* C8 witness: the back button of page 3 of the statistics turned the
\* message to page 2 in place
C8_Witness ==
    /\ Fetching
    /\ last.data = PaginationToken("stats", "prev", 3)
    /\ last.edited
    /\ Len(msgs) = 1
    /\ msgs[last.msg].text.tag = "stats_page"
    /\ msgs[last.msg].text.page = 2

\* C9: a malformed pagination token is logged and the callback is answered
\* with a notice the user sees.
C9_MalformedAnswered ==
    (PaginationEvent /\ last.msg # 0 /\ Malformed(last.data)) =>
        /\ last.log # <<>>
        /\ Alerted

\* C10: whatever call to the store, the catalog or the transport fails, no
\* exception leaves cmd_start, cmd_history, cmd_stats, handle_search,
\* handle_movie_select or handle_pagination, and a notice is shown.
C10_NothingEscapes ==
    (/\ last.handler \in {"cmd_start", "cmd_history", "cmd_stats", "handle_search",
                          "handle_movie_select", "handle_pagination"}
     /\ last.failed # {}) =>
        /\ ~last.raised
        /\ Alerted \/ last.sent > 0 \/ last.edited

\* ------------------------------------- vocabulary of the selection claims
MovieSelectEvent == last.handler = "handle_movie_select"

\* the catalog id the token of event e names (0: the token names none)
PressedMovie(e) ==
    LET ids == {k \in 300..(300 + SEARCH_LIMIT + 1) :
                    e.data = <<"movie", "_">> \o Str(k)}
    IN  IF ids = {} THEN 0 ELSE CHOOSE k \in ids : TRUE

\* event e got the details of its movie from the catalog
Fetched(e) ==
    /\ e.handler = "handle_movie_select"
    /\ e.msg # 0
    /\ PressedMovie(e) # 0
    /\ e.found
    /\ "get_movie_details" \notin e.failed

\* event e got the details and found the row of its user
Identified(e) ==
    /\ Fetched(e)
    /\ "get_user" \notin e.failed
    /\ get_user_by_telegram_id(users, e.from_user) # 0

\* C11: a movie selection whose details are fetched and whose user exists
\* appends exactly one search_history row: of that user, with the movie's
\* id, title and rating, and with the first line of the selection list's
\* text as query.  The append comes before any change to the message: when
\* the append fails the chat is as it was, and the row is there whatever
\* happens to the message afterwards.
C11_OneRowAppended ==
    [][(last = NoEvent /\ Identified(last')) =>
          IF "add_search_history" \in last'.failed
          THEN /\ history' = history
               /\ msgs' = msgs
          ELSE LET row == history'[Len(history')]
                   k   == PressedMovie(last')
               IN  /\ Len(history') = Len(history) + 1
                   /\ SubSeq(history', 1, Len(history)) = history
                   /\ row.user_id = get_user_by_telegram_id(users, last'.from_user)
                   /\ row.movie_id = k
                   /\ row.movie_title = <<"title", k>>
                   /\ row.movie_rating = (IF k % 2 = 0 THEN NULL ELSE 80)
                   /\ row.query = msgs[last'.msg].text.tag
                   /\ row.query = SELECT_TEXT
      ]_vars

\* C11 witness: the row is appended although the edit of the message that
\* follows the append failed
C11_Witness ==
    /\ Identified(last)
    /\ "edit_text" \in last.failed
    /\ ~last.edited
    /\ Len(history) = MaxInitRows + 1
    /\ history[Len(history)].movie_id = PressedMovie(last)
    /\ history[Len(history)].query = SELECT_TEXT

\* event e asked the catalog for its movie and got no details
DetailsAbsent(e) ==
    /\ e.handler = "handle_movie_select"
    /\ e.msg # 0
    /\ PressedMovie(e) # 0
    /\ ~e.found
    /\ "get_movie_details" \notin e.failed

\* C12: a movie selection whose details are absent leaves the selection
\* list as it was (text and controls), sends no message and appends no
\* row; unless a transport call fails it shows one alert.
C12_FetchFailed ==
    [][(last = NoEvent /\ DetailsAbsent(last')) =>
          /\ msgs' = msgs
          /\ history' = history
          /\ users' = users
          /\ last'.failed = {} =>
                /\ Len(last'.answers) = 1
                /\ last'.answers[1] # ""
      ]_vars

\* C12 witness: the alert was shown over a selection list still in place
C12_Witness ==
    /\ DetailsAbsent(last)
    /\ last.failed = {}
    /\ Alerted
    /\ msgs[last.msg].kind = "select"
    /\ ~msgs[last.msg].deleted
    /\ Len(msgs[last.msg].kb) = SEARCH_LIMIT

\* the messages of the chat that show a detail view
DetailViews == {i \in DOMAIN msgs : ~msgs[i].deleted /\ msgs[i].kind = "detail"}

\* C13: after a movie selection that fetched the details, found the user
\* and recorded the row, whichever one of the photo send, the delete of
\* the selection list or the text edit fails, the chat never shows two
\* detail views, and never a detail view next to the selection list it
\* came from.
C13_NoDuplicateView ==
    (/\ Identified(last)
     /\ last.failed \subseteq {"answer_photo", "delete", "edit_text"}
     /\ Cardinality(last.failed) <= 1) =>
        /\ Cardinality(DetailViews) <= 1
        /\ DetailViews # {} => last.msg \in DetailViews \/ msgs[last.msg].deleted

\* a text search that got as far as its reply
SearchEvent ==
    /\ last.handler = "handle_search"
    /\ last.from_user # 0
    /\ ~last.raised

\* C14: a text search sends one message.  With no record from the catalog
\* it is the fixed nothing-found text without controls; otherwise it is a
\* selection list with min(5, records) buttons, button i carrying the id of
\* record i.
C14_SelectionControls ==
    SearchEvent =>
        LET ids == last.data
            m   == msgs[Len(msgs)]
        IN  /\ last.sent = 1
            /\ IF ids = <<>>
               THEN /\ m.text.tag = "nothing_found"
                    /\ m.kb = <<>>
                    /\ m.kind # "select"
               ELSE /\ m.kind = "select"
                    /\ Len(m.kb) = (IF Len(ids) < 5 THEN Len(ids) ELSE 5)
                    /\ \A i \in DOMAIN m.kb :
                          LET token == m.kb[i].callback_data
                          IN  /\ SegmentCount(token) = 2
                              /\ SubSeq(token, 1, 2) = <<"movie", "_">>
                              /\ LooksInteger(LastSegment(token))
                              /\ IntValue(LastSegment(token)) = ids[i]

\* C14 witness: six records from the catalog, five buttons
C14_Witness ==
    /\ SearchEvent
    /\ Len(last.data) = SEARCH_LIMIT + 1
    /\ Len(msgs[Len(msgs)].kb) = SEARCH_LIMIT
    /\ msgs[Len(msgs)].kb[SEARCH_LIMIT].callback_data = MovieToken(MovieId(SEARCH_LIMIT))

\* the store has a row for the person with this telegram id
HasRow(tg) == \E i \in DOMAIN users : users[i].telegram_id = tg

\* event e came to the look-up of its user, and the user has no row
UserMissing(e) ==
    /\ \/ Fetched(e)
       \/ e.handler = "handle_pagination" /\ e.msg # 0 /\ ~Malformed(e.data)
    /\ "get_user" \notin e.failed
    /\ ~HasRow(e.from_user)

\* C15: a movie selection or a pagination event of a user without a row
\* appends no search_history row, creates no user row and leaves the chat
\* as it was (nothing edited, deleted or sent); unless a transport call
\* fails it shows one alert.
C15_UserMissing ==
    [][(last = NoEvent /\ UserMissing(last')) =>
          /\ history' = history
          /\ users' = users
          /\ msgs' = msgs
          /\ last'.failed = {} =>
                /\ Len(last'.answers) = 1
                /\ last'.answers[1] # ""
      ]_vars

\* C15 witness: a member of the chat without a row pressed a button of the
\* selection list and got the alert
C15_Witness ==
    /\ Fetched(last)
    /\ ~HasRow(last.from_user)
    /\ users # <<>>
    /\ last.failed = {}
    /\ Alerted
    /\ msgs[last.msg].kind = "select"

\* ------------------------------------ vocabulary of the statistics claim
\* the user's rows that carry the triple k
RowsOfGroup(user_id, k) == {i \in RowIdsOf(user_id) : GroupKey(history[i]) = k}

\* the sum of the ratings (in tenths) of the rows S
RECURSIVE RatingSum(_)
RatingSum(S) ==
    IF S = {} THEN 0
    ELSE LET i == CHOOSE j \in S : TRUE
         IN  history[i].movie_rating + RatingSum(S \ {i})

\* C16: get_user_stats yields one aggregate per distinct (movie id, title,
\* URL) triple of the user's rows: search_count is the number of rows with
\* the triple, avg_rating is the mean of their ratings rounded to one
\* decimal and is absent exactly when none of them has a rating, and the
\* aggregates come by descending search_count, page after page.
C16_StatsAggregates ==
    (res.op = "get_user_stats" /\ res.page >= 1) =>
        LET u     == res.user_id
            keys  == GroupKeysOf(u)
            items == res.items
            lo    == (res.page - 1) * res.per_page
            hi    == Min(res.page * res.per_page, Cardinality(keys))
            Key(g) == <<g.movie_id, g.movie_title, g.movie_url>>
        IN  /\ Len(items) = Max(0, hi - lo)
            /\ \A a, b \in DOMAIN items : a < b =>
                  /\ Key(items[a]) # Key(items[b])
                  /\ items[a].search_count >= items[b].search_count
            /\ \A a \in DOMAIN items :
                  LET g     == items[a]
                      rows  == RowsOfGroup(u, Key(g))
                      rated == {i \in rows : history[i].movie_rating # NULL}
                      n     == Cardinality(rated)
                      sum   == RatingSum(rated)
                  IN  /\ Key(g) \in keys
                      /\ g.search_count = Cardinality(rows)
                      /\ (g.avg_rating = NULL) <=> (rated = {})
                      /\ rated # {} =>
                            /\ 2 * (g.avg_rating * n - sum) <= n
                            /\ 2 * (sum - g.avg_rating * n) <= n
                      \* every group searched more often is on an earlier rank
                      /\ Cardinality({k \in keys :
                             Cardinality(RowsOfGroup(u, k)) > g.search_count})
                            <= lo + a - 1

\* C16 witness: one group of two rows rated 7.0 and 8.0 comes with
\* search_count 2 and avg_rating 7.5, next to a group without ratings
C16_Witness ==
    /\ res.op = "get_user_stats"
    /\ res.page = 1
    /\ \E a \in DOMAIN res.items :
          LET g    == res.items[a]
              rows == RowsOfGroup(res.user_id, <<g.movie_id, g.movie_title, g.movie_url>>)
          IN  /\ g.search_count = 2
              /\ {history[i].movie_rating : i \in rows} = {70, 80}
              /\ g.avg_rating = 75
    /\ \E b \in DOMAIN res.items : res.items[b].avg_rating = NULL

\* ---------------------------------------- vocabulary of the catalog claim
\* a record the client can take: id and name are there, the rating is
\* missing or an object whose kp is no stray text, the votes are missing,
\* null or complete
WellFormed(film) ==
    /\ film.id.t = "num"
    /\ film.name.t # "missing"
    /\ film.rating.t \in {"missing", "obj"}
    /\ film.rating.t = "obj" => film.rating.kp.t \in {"missing", "null", "num"}
    /\ film.votes.t = "obj" => film.votes.kp.t = "num" /\ film.votes.imdb.t = "num"

\* C17: search_movie and get_movie_details never raise: on a transport
\* failure, a non-success status, a timeout or a malformed payload, search
\* returns the well-formed records of the response in order, every
\* offending record skipped, and the details call returns absent.
C17_CatalogNeverRaises ==
    res.op \in {"search_movie", "get_movie_details"} =>
        LET good == SelectSeq(res.response.docs, WellFormed)
        IN  /\ ~res.raised
            /\ Len(res.movies) = Len(good)
            /\ \A i \in DOMAIN good : res.movies[i].id = good[i].id.v

\* C18: get_text never raises and is memoized: a call for a key that an
\* earlier call has loaded returns the loaded string without opening the
\* asset, whatever became of the asset; a call that finds the asset
\* missing returns the placeholder for the key.
C18_GetTextNeverRaises ==
    res.op = "get_text" =>
        /\ res.error = ""
        /\ res.cached.hit => res.text = res.cached.text /\ ~res.opened
        /\ (~res.cached.hit /\ files[res.text_key].st = "missing") =>
              res.text = <<"text not found: ", res.text_key>>

\* C19: whatever page a decoded pagination token asks for, the message is
\* never edited to a page indicator "page X of Y" with X < 1 or X > Y: a
\* page outside [1, total_pages] is clamped or answered with an error.
C19_PageIndicatorInRange ==
    (Fetching /\ last.edited) =>
        LET text == msgs[last.msg].text
        IN  text.tag \in {"history_page", "stats_page"} =>
               /\ 1 <= text.page
               /\ text.page <= text.total

\* C20: a pagination event that resolves to page 1 for a user without rows
\* is legitimately empty content: the message is edited to the fixed empty
\* text, and no error alert is raised.
C20_LegitimatelyEmpty ==
    (/\ Fetching
     /\ AskedPage(DecodeToken(last.data)) = 1
     /\ RowIdsOf(ActingUser) = {}) =>
        /\ ~Alerted
        /\ last.edited
        /\ msgs[last.msg].text.tag \in {"history_empty", "stats_empty"}

\* ------------------------------------ vocabulary of the page-segment claims
\* the page segment of a 4-segment token reads as an integer that is zero
\* or negative: "0", "-3", "-0", "+0", "000"
NonPositivePage(data) ==
    LET seg == LastSegment(data)
    IN  /\ SegmentCount(data) = 4
        /\ LooksInteger(seg)
        /\ \/ seg[1] = "-"
           \/ \A i \in DOMAIN seg : seg[i] \in {"0", "+"}

\* C21: a 4-segment pagination token whose page segment is "0" or a negative
\* number ends in the decode-error return, with no store read and no
\* message edit.
C21_NonPositivePageRejected ==
    (PaginationEvent /\ last.msg # 0 /\ NonPositivePage(last.data)) =>
        /\ last.outcome = "decode_error"
        /\ last.reads = 0
        /\ ~last.edited

\* C22: however the get_or_create_user calls of concurrently scheduled
\* handlers interleave -- two first contacts of one telegram id that both
\* select "absent" before either commits included -- the users table holds
\* at most one row per telegram id, no row of it is deleted or changed, and
\* every call returns the row of its telegram id: none raises.
C22_GetOrCreateInterleaved ==
    [][/\ \A i, j \in DOMAIN users' :
             users'[i].telegram_id = users'[j].telegram_id => i = j
       /\ Len(users') >= Len(users)
       /\ \A i \in DOMAIN users : users'[i] = users[i]
       /\ \A t \in DOMAIN tasks' :
             tasks'[t].op = "get_or_create_user" =>
                /\ tasks'[t].pc # "raised"
                /\ tasks'[t].pc = "returned" =>
                      /\ tasks'[t].user \in DOMAIN users'
                      /\ users'[tasks'[t].user].telegram_id = tasks'[t].telegram_id
      ]_vars

\* the rows of search_history that belong to user_id, in a given table
RowCount(h, user_id) == Cardinality({i \in DOMAIN h : h[i].user_id = user_id})

\* C23: search_history is append-only and only a movie selection writes it:
\* no step modifies or deletes a row, no user's row count decreases, the
\* start, help, history, stats, text-search and pagination events leave
\* search_history as it was, and a pagination event leaves users as it was.
C23_AppendOnly ==
    [][/\ Len(history') >= Len(history)
       /\ \A i \in DOMAIN history : history'[i] = history[i]
       /\ \A user_id \in 1..Len(users) :
             RowCount(history', user_id) >= RowCount(history, user_id)
       /\ (last = NoEvent /\ last'.handler \in
               {"cmd_start", "cmd_help", "cmd_history", "cmd_stats",
                "handle_search", "handle_pagination"}) => history' = history
       /\ (last = NoEvent /\ last'.handler = "handle_pagination") => users' = users
      ]_vars

\* C23 witness: a movie selection appended a row to a table that had rows
C23_Witness ==
    /\ last.handler = "handle_movie_select"
    /\ last.writes = 1
    /\ appended = 1
    /\ Len(history) > PER_PAGE
    /\ history[Len(history)].id = Len(history)
    /\ history[Len(history)].query = SELECT_TEXT

\* ------------------------------------- vocabulary of the navigation claims
\* the event e is a press of a button that message e.msg carries
RenderedPress(e) ==
    /\ e.handler = "handle_pagination"
    /\ e.msg # 0
    /\ Paged(e.msg)
    /\ \E b \in DOMAIN msgs[e.msg].kb : msgs[e.msg].kb[b].callback_data = e.data

\* message m shows a page of the history or statistics of the member tg, as
\* it was when the table held its first n rows
ShowsPageAt(m, tg, n) ==
    LET user_id == get_user_by_telegram_id(users, tg)
        h       == SubSeq(history, 1, n)
        page    == IF msgs[m].kind = "history"
                   THEN get_user_history(h, user_id, msgs[m].page, PER_PAGE)
                   ELSE get_user_stats(h, user_id, msgs[m].page, PER_PAGE)
    IN  /\ user_id # 0
        /\ msgs[m].total = page.total_pages
        /\ msgs[m].text.items = page.items

\* message m was rendered for the member tg, now or before the rows of
\* this run were appended
ShowsPageOf(m, tg) ==
    \E n \in (Len(history) - appended)..Len(history) : ShowsPageAt(m, tg, n)

\* the press e turned its message one page on or back, in place, to a
\* window that is not empty and a page within 1..total_pages
InRangeEdit(e, after) ==
    LET m == e.msg
        forward == \E b \in DOMAIN msgs[m].kb :
                      /\ msgs[m].kb[b].callback_data = e.data
                      /\ msgs[m].kb[b].text = "forward"
    IN  /\ e.edited
        /\ e.sent = 0
        /\ \A a \in DOMAIN e.answers : e.answers[a] = ""
        /\ Len(after) = Len(msgs)
        /\ after[m].text.items # <<>>
        /\ after[m].text.page = after[m].page
        /\ after[m].text.total = after[m].total
        /\ after[m].page = msgs[m].page + (IF forward THEN 1 ELSE 0 - 1)
        /\ 1 <= after[m].page
        /\ after[m].page <= after[m].total

\* C24 as stated: in a run of history/stats commands, searches, selections
\* and presses of rendered navigation buttons, with the store and the
\* transport working, every press of a rendered button edits the message
\* in place to a non-empty window of a page within 1..total_pages.
C24_EveryRenderedPress ==
    [][(last = NoEvent /\ RenderedPress(last')) => InRangeEdit(last', msgs')]_vars

\* C24 amended: the same for every press that comes from the member whose
\* history or statistics the message shows.
C24_OwnRenderedPress ==
    [][(/\ last = NoEvent
        /\ RenderedPress(last')
        /\ ShowsPageOf(last'.msg, last'.from_user)) => InRangeEdit(last', msgs')]_vars

\* C24 witness: the actor's statistics were rendered, a row was appended,
\* and the forward button of page 1 then turned the message to page 2
C24_Witness ==
    /\ PaginationEvent
    /\ last.from_user = Actor
    /\ last.data = PaginationToken("stats", "next", 1)
    /\ last.edited
    /\ appended = 1
    /\ Paged(last.msg)
    /\ msgs[last.msg].page = 2
    /\ msgs[last.msg].text.items # <<>>
    /\ ShowsPageAt(last.msg, Actor, Len(history))
    /\ ~ShowsPageAt(last.msg, Actor, Len(history) - 1)

\* ------------------------------------------ vocabulary of the burst claim
\* the pagination tasks that were given a token from message m
TasksOn(m) ==
    {t \in DOMAIN tasks : tasks[t].op = "handle_pagination" /\ tasks[t].msg = m}

\* two deliveries of one token by one user, with no row appended between
\* their page reads
SameDelivery(t1, t2) ==
    /\ tasks[t1].msg = tasks[t2].msg
    /\ tasks[t1].data = tasks[t2].data
    /\ tasks[t1].from_user = tasks[t2].from_user
    /\ tasks[t1].rows = tasks[t2].rows

\* C25: handling a pagination token is idempotent for what the message
\* shows.  Two deliveries of the same token, one after the other or
\* interleaved, with no row appended in between, end the same way and
\* write the same text and the same buttons; once all deliveries to a
\* message are over and were of one token, the message shows what one
\* delivery writes: the page of the token plus one for next (k + 1, never
\* k + 2), minus one for prev.
C25_Idempotent ==
    /\ \A t1, t2 \in DOMAIN tasks :
          (/\ t1 \in TasksOn(tasks[t2].msg)
           /\ t2 \in TasksOn(tasks[t1].msg)
           /\ tasks[t1].pc = "done"
           /\ tasks[t2].pc = "done"
           /\ SameDelivery(t1, t2)) =>
              /\ tasks[t1].outcome = tasks[t2].outcome
              /\ tasks[t1].shown = tasks[t2].shown
    /\ \A m \in DOMAIN msgs : \A t \in TasksOn(m) :
          (/\ \A t2 \in TasksOn(m) : tasks[t2].pc = "done" /\ SameDelivery(t, t2)
           /\ tasks[t].outcome = "shown") =>
              /\ msgs[m].text = tasks[t].shown.text
              /\ msgs[m].kb = tasks[t].shown.kb
              /\ msgs[m].page = AskedPage(DecodeToken(tasks[t].data))
              /\ msgs[m].text.page = msgs[m].page

\* C25 witness: "pagination_history_next_1" was delivered twice, the second
\* task read its user before the first one edited the message, both edits
\* went through and the message shows page 2
C25_Witness ==
    /\ Len(tasks) = 2
    /\ \A t \in 1..2 :
          /\ tasks[t].data = PaginationToken("history", "next", 1)
          /\ tasks[t].pc = "done"
          /\ tasks[t].outcome = "shown"
    /\ SameDelivery(1, 2)
    /\ msgs[tasks[1].msg].page = 2
    /\ msgs[tasks[1].msg].total = 3

====
